---- MODULE Spec2Model ----
(***************************************************************************)
(* MonyWell: the fund-movement handlers of AccountsController (deposit,    *)
(* transfer, withdraw) over the accounts table and the idempotency cache.  *)
(*                                                                         *)
(* Every handler is cut at its awaits: the synchronous prefix runs in      *)
(* Start, each awaited store call (find, update, commit) and the awaited   *)
(* argon2.verify is one step, so that other requests interleave exactly    *)
(* where the event loop lets them. The store is a transactional table:     *)
(* reads outside a transaction see committed rows, an update inside a      *)
(* transaction locks the rows it matches and its writes become visible at  *)
(* commit. UserController.create, the registration, is modelled the same   *)
(* way over the users and accounts tables (SpecReg).                       *)
(***************************************************************************)
EXTENDS Integers, FiniteSets, Sequences, TLC

\* ------------------------------------------------------------------ bounds
\* Concurrent request slots and the number of requests issued in one run.
NProcs == 2
MaxOps == 2
\* Requests issued in one run of the sequential specification.
MaxOpsSeq == 2
\* Registration requests issued in one run.
MaxRegs == 2
\* Steps of the grid of Math.random values drawn.
RandomSteps == 100

Procs == 1..NProcs

\* ------------------------------------------------------------- value sets
Users == {1, 2}
\* Idempotency-Key header: 0 is an absent (falsy) header.
NoKey == 0
Keys == {NoKey, 1}
\* Account numbers: 1, 2 and 3 may be rows of the table, 9 never is.

\* ----------------------------------------------------------------- argon2
\* A PIN or hash string is an integer: below 10 a plain string (0 is a
\* string shorter than 4 characters), from 10 on a PHC-format hash string,
\* Hash(x) being the hash string of x.
Hash(x) == x + 10
IsPHC(d) == d >= 10

\* argon2.verify(digest, plain): a digest that is no PHC string makes the
\* library throw; otherwise it answers whether digest hashes plain.
argon2_verify(digest, plain) ==
    IF ~IsPHC(digest) THEN "throw"
    ELSE IF digest = Hash(plain) THEN "true" ELSE "false"

\* ------------------------------------------------------------------ state
VARIABLES
    accounts,   \* committed rows of table accounts: number -> row
    cache,      \* customCache: <<userId, key>> -> cached response
    pc,         \* where each request's handler stands
    req,        \* the request a slot is serving
    acct,       \* account / senderAccount / sourceAccount as read
    rcpt,       \* recipientAccount as read
    tx,         \* the open transaction's uncommitted writes: number -> balance
    rows,       \* affected-row counts the updates returned
    res,        \* the response sent
    did,        \* history: the store and argon2 calls this request made
    hit,        \* history: the cache record that existed when the request began
    keyReq,     \* history: the request that stored each cache record
    expected,   \* history: initial balance plus deltas of successful operations
    ops,        \* requests issued so far
    userRows,   \* committed rows of table users: id -> row
    reg,        \* where each registration (UserController.create) stands
    gen         \* a draw of Math.random and the account number made of it

vars == <<accounts, cache, pc, req, acct, rcpt, tx, rows, res, did, hit,
          keyReq, expected, ops, userRows, reg, gen>>

\* The state of the registrations, and the state only the fund-movement
\* handlers touch.
regVars == <<userRows, reg, gen>>
fundVars == <<cache, pc, req, acct, rcpt, tx, rows, res, did, hit, keyReq,
              expected>>

\* ---------------------------------------------------------------- records
Row(owner, balance) ==
    [owner |-> owner, balance |-> balance, transaction_pin |-> Hash(1)]

NoAcct == [num |-> 0, owner |-> 0, balance |-> 0, transaction_pin |-> 0]

Snapshot(t, n) ==
    [num |-> n, owner |-> t[n].owner, balance |-> t[n].balance,
     transaction_pin |-> t[n].transaction_pin]

Response(status, success, details) ==
    [status |-> status, success |-> success, details |-> details,
     balance |-> 0, owner |-> 0, source |-> 0, destination |-> 0,
     amount |-> 0, bank |-> 0]

NoResponse == Response(0, FALSE, "")

NoReq == [kind |-> "none", user |-> 0, key |-> 0, source |-> 0,
          destination |-> 0, amount |-> 0, pin |-> 0, bank |-> 0]

Req(kind, user, key, source, destination, amount, pin, bank) ==
    [kind |-> kind, user |-> user, key |-> key, source |-> source,
     destination |-> destination, amount |-> amount, pin |-> pin,
     bank |-> bank]

\* A row of table users (the columns the registration reads), the validated
\* body of a registration, and an idle registration slot: value is the body,
\* uid the id of the row the transaction inserted, user the id of the row
\* createUser resolved.
UserRow(email, phone_number) == [email |-> email, phone_number |-> phone_number]

NoBody == [email |-> 0, phone_number |-> 0, transaction_pin |-> 0]

NoReg == [pc |-> "idle", value |-> NoBody, uid |-> 0, user |-> 0,
          res |-> NoResponse]

\* No draw made: random is the draw (in units of 10^-8), account_number the
\* decimal digits of the number generated from it (<<>> before the call).
NoGen == [random |-> 0, account_number |-> <<>>]

NoTx == [n \in {} |-> 0]

\* ------------------------------------------------- error-factory.factory
\* ErrorFactory.getError(err) sent with res.status(status).
getError(status, err) == Response(status, FALSE, err)

\* An error that escapes the handler: express answers 500, no JSON envelope.
Unhandled == Response(500, FALSE, "unhandled")

\* ------------------------------------------------------------- validators
\* Joi reports the first failing rule ("" when the body is valid).
validateTransfer(r) ==
    IF r.pin = 0 THEN "transaction_pin length must be at least 4 characters long"
    ELSE IF r.bank # 0 THEN "destinationBankName is not allowed"
    ELSE ""

validateWithdrawal(r) ==
    IF r.pin = 0 THEN "transaction_pin length must be at least 4 characters long"
    ELSE IF r.bank = 0 THEN "destinationBankName is required"
    ELSE ""

\* --------------------------------------------------------- account store
\* Rows the clause WHERE owner = o matches.
Matching(t, o) == {n \in DOMAIN t : t[n].owner = o}

\* find(accountNumber): the row, or undefined.
find(t, n) == IF n \in DOMAIN t THEN Snapshot(t, n) ELSE NoAcct

\* findByOwnerId(ownerId).first(): any one of the owner's rows, or undefined.
findByOwnerId(t, o) ==
    IF Matching(t, o) = {} THEN {NoAcct}
    ELSE {Snapshot(t, n) : n \in Matching(t, o)}

\* Rows locked by the open transactions of the other requests.
LockedByOthers(p) == UNION {DOMAIN tx[q] : q \in Procs \ {p}}

\* The transaction's writes after UPDATE accounts SET balance WHERE owner.
Written(t, w, o, balance) ==
    [n \in DOMAIN w \cup Matching(t, o) |->
        IF n \in Matching(t, o) THEN balance ELSE w[n]]

\* The committed table after the transaction's writes are applied.
\* (the update writes the row anew, without its transaction_pin)
CommittedWholeRow(t, w) ==
    [n \in DOMAIN t |->
        IF n \in DOMAIN w
        THEN [t[n] EXCEPT !.balance = w[n], !.transaction_pin = 0] ELSE t[n]]
Committed(t, w) ==
    [n \in DOMAIN t |->
        IF n \in DOMAIN w THEN [t[n] EXCEPT !.balance = w[n]] ELSE t[n]]

\* --------------------------------------------------------------- handlers
\* deposit, up to its first await.
\* (the amount check left out)
DepositSyncNoCheck(r) == NoResponse
DepositSync(r) ==
    IF r.amount <= 0 THEN getError(400, "Invalid amount") ELSE NoResponse

\* transfer, up to its first await.
\* (the same-account check left out)
SameAccountNever(r) == FALSE
SameAccount(r) == r.source = r.destination

TransferSync(r) ==
    IF validateTransfer(r) # "" THEN getError(400, validateTransfer(r))
    ELSE IF SameAccount(r)
    THEN getError(400, "Sender and recipient account cannot be the same")
    ELSE NoResponse

\* transfer, the checks made once both accounts were looked up.
\* (the funds check made before the ownership check)
TransferChecksFundsFirst(r, s, d) ==
    IF r.amount <= 0 THEN getError(400, "Invalid amount")
    ELSE IF s = NoAcct \/ d = NoAcct
    THEN getError(404, "One or both bank accounts do not exist.")
    ELSE IF s.balance < r.amount
    THEN getError(400, "Insufficient funds in the sender account.")
    ELSE IF s.owner # r.user
    THEN getError(400, "You are not allowed to transfer from this account")
    ELSE NoResponse
\* (the ownership check left out)
TransferChecksNoOwner(r, s, d) ==
    IF r.amount <= 0 THEN getError(400, "Invalid amount")
    ELSE IF s = NoAcct \/ d = NoAcct
    THEN getError(404, "One or both bank accounts do not exist.")
    ELSE IF s.balance < r.amount
    THEN getError(400, "Insufficient funds in the sender account.")
    ELSE NoResponse
TransferChecks(r, s, d) ==
    IF r.amount <= 0 THEN getError(400, "Invalid amount")
    ELSE IF s = NoAcct \/ d = NoAcct
    THEN getError(404, "One or both bank accounts do not exist.")
    ELSE IF s.owner # r.user
    THEN getError(400, "You are not allowed to transfer from this account")
    ELSE IF s.balance < r.amount
    THEN getError(400, "Insufficient funds in the sender account.")
    ELSE NoResponse

\* withdraw, up to its first await.
WithdrawSync(r) ==
    IF validateWithdrawal(r) # "" THEN getError(400, validateWithdrawal(r))
    ELSE NoResponse

\* withdraw, the checks made once the source account was looked up.
\* (the funds check left out)
WithdrawChecksNoFunds(r, s) ==
    IF s = NoAcct THEN getError(404, "Source Bank account do not exist.")
    ELSE NoResponse
\* (a rejected PIN reported before the funds check)
WithdrawChecksPinFirst(r, s) ==
    IF s = NoAcct THEN getError(404, "Source Bank account do not exist.")
    ELSE IF argon2_verify(r.pin, s.transaction_pin) = "false"
    THEN getError(400, "Invalid transaction pin")
    ELSE IF s.balance < r.amount
    THEN getError(400, "Insufficient funds in the sender account.")
    ELSE NoResponse
WithdrawChecks(r, s) ==
    IF s = NoAcct THEN getError(404, "Source Bank account do not exist.")
    ELSE IF s.balance < r.amount
    THEN getError(400, "Insufficient funds in the sender account.")
    ELSE NoResponse

\* The affected-row checks made before the transaction callback returns.
\* (only the last update's count checked)
RowsOkLastOnly(kind, c) == c[Len(c)] = 1
\* (a count above one accepted)
RowsOkAtLeastOne(kind, c) == \A i \in 1..Len(c) : c[i] >= 1
RowsOk(kind, c) == \A i \in 1..Len(c) : c[i] = 1

\* The message of the error thrown when the affected-row check fails.
RowsError(kind) ==
    IF kind = "withdraw" THEN "Withdrawal failed" ELSE "Deposit failed"

\* The success responses.
DepositResponse(r, a) ==
    [Response(200, TRUE, "") EXCEPT !.balance = a.balance + r.amount,
                                    !.owner = r.user]
TransferResponse(r) ==
    [Response(200, TRUE, "") EXCEPT !.destination = r.destination,
                                    !.source = r.source, !.amount = r.amount]
WithdrawResponse(r) ==
    [Response(200, TRUE, "") EXCEPT !.destination = r.destination,
                                    !.source = r.source, !.amount = r.amount,
                                    !.bank = r.bank]
SuccessResponse(r, a) ==
    CASE r.kind = "deposit" -> DepositResponse(r, a)
      [] r.kind = "transfer" -> TransferResponse(r)
      [] OTHER -> WithdrawResponse(r)

\* cacheResponseIfKeyExists: the cache after a successful response.
\* (the test of the key left out)
cacheResponseAlways(c, r, response) ==
    [c EXCEPT ![<<r.user, r.key>>] = response]
cacheResponseIfKeyExists(c, r, response) ==
    IF r.key # NoKey THEN [c EXCEPT ![<<r.user, r.key>>] = response] ELSE c

\* --------------------------------------------------------- initial states
\* Table with one account per user (100 and 50).
TableOne == (1 :> Row(1, 100)) @@ (2 :> Row(2, 50))
\* Table in which user 2 owns two accounts: the schema of accounts puts no
\* uniqueness on the owner column.
TableTwo == (1 :> Row(1, 0)) @@ (2 :> Row(2, 50)) @@ (3 :> Row(2, 0))

\* The cache keys: `Bearer ${userId}-${idempotencyKey}`, that of a request
\* without the header included.
CacheKeys == Users \X Keys

Init ==
    /\ accounts \in {TableOne, TableTwo}
    /\ cache = [k \in CacheKeys |-> NoResponse]
    /\ pc = [p \in Procs |-> "idle"]
    /\ req = [p \in Procs |-> NoReq]
    /\ acct = [p \in Procs |-> NoAcct]
    /\ rcpt = [p \in Procs |-> NoAcct]
    /\ tx = [p \in Procs |-> NoTx]
    /\ rows = [p \in Procs |-> <<>>]
    /\ res = [p \in Procs |-> NoResponse]
    /\ did = [p \in Procs |-> {}]
    /\ hit = [p \in Procs |-> NoResponse]
    /\ keyReq = [k \in CacheKeys |-> NoReq]
    /\ expected = [n \in DOMAIN accounts |-> accounts[n].balance]
    /\ ops = 0
    /\ userRows = [u \in Users |-> UserRow(u, u)]
    /\ reg = [p \in Procs |-> NoReg]
    /\ gen = NoGen

\* ---------------------------------------------------------------- actions
\* The handler's response; the request is over.
Finish(p, response) ==
    /\ pc' = [pc EXCEPT ![p] = "done"]
    /\ res' = [res EXCEPT ![p] = response]

\* The synchronous prefix of the handler serving r.
SyncCheck(r) ==
    CASE r.kind = "deposit" -> DepositSync(r)
      [] r.kind = "transfer" -> TransferSync(r)
      [] OTHER -> WithdrawSync(r)

\* A request arrives and its handler runs up to its first await. No handler
\* reads customCache.
Start(p, r) ==
    /\ pc[p] \in {"idle", "done"}
    /\ req' = [req EXCEPT ![p] = r]
    /\ acct' = [acct EXCEPT ![p] = NoAcct]
    /\ rcpt' = [rcpt EXCEPT ![p] = NoAcct]
    /\ rows' = [rows EXCEPT ![p] = <<>>]
    /\ did' = [did EXCEPT ![p] = {}]
    /\ hit' = [hit EXCEPT ![p] =
                 IF r.key # NoKey /\ keyReq[<<r.user, r.key>>] = r
                 THEN cache[<<r.user, r.key>>] ELSE NoResponse]
    /\ ops' = ops + 1
    /\ IF SyncCheck(r) # NoResponse
       THEN Finish(p, SyncCheck(r))
       ELSE /\ pc' = [pc EXCEPT ![p] = "find"]
            /\ res' = [res EXCEPT ![p] = NoResponse]
    /\ UNCHANGED <<accounts, cache, tx, keyReq, expected>>
    /\ UNCHANGED regVars

\* deposit: await findByOwnerId(userId), then the existence check.
DepositFind(p) ==
    /\ pc[p] = "find" /\ req[p].kind = "deposit"
    /\ \E a \in findByOwnerId(accounts, req[p].user) :
         /\ acct' = [acct EXCEPT ![p] = a]
         /\ IF a = NoAcct
            THEN Finish(p, getError(404, "Bank account doesn't exist"))
            ELSE /\ pc' = [pc EXCEPT ![p] = "update"]
                 /\ UNCHANGED res
    /\ did' = [did EXCEPT ![p] = @ \cup {"find"}]
    /\ UNCHANGED <<accounts, cache, req, rcpt, tx, rows, hit, keyReq,
                   expected, ops>>
    /\ UNCHANGED regVars

\* transfer: await find(source).
TransferFindSender(p) ==
    /\ pc[p] = "find" /\ req[p].kind = "transfer"
    /\ acct' = [acct EXCEPT ![p] = find(accounts, req[p].source)]
    /\ pc' = [pc EXCEPT ![p] = "find2"]
    /\ did' = [did EXCEPT ![p] = @ \cup {"find"}]
    /\ UNCHANGED <<accounts, cache, req, rcpt, tx, rows, res, hit, keyReq,
                   expected, ops>>
    /\ UNCHANGED regVars

\* transfer: await find(destination), then the checks up to argon2.verify.
TransferFindRecipient(p) ==
    /\ pc[p] = "find2"
    /\ LET d == find(accounts, req[p].destination)
           e == TransferChecks(req[p], acct[p], d)
       IN /\ rcpt' = [rcpt EXCEPT ![p] = d]
          /\ IF e # NoResponse
             THEN Finish(p, e)
             ELSE /\ pc' = [pc EXCEPT ![p] = "verify"]
                  /\ UNCHANGED res
    /\ UNCHANGED <<accounts, cache, req, acct, tx, rows, did, hit, keyReq,
                   expected, ops>>
    /\ UNCHANGED regVars

\* withdraw: await find(source), then the checks up to argon2.verify.
WithdrawFind(p) ==
    /\ pc[p] = "find" /\ req[p].kind = "withdraw"
    /\ LET s == find(accounts, req[p].source)
           e == WithdrawChecks(req[p], s)
       IN /\ acct' = [acct EXCEPT ![p] = s]
          /\ IF e # NoResponse
             THEN Finish(p, e)
             ELSE /\ pc' = [pc EXCEPT ![p] = "verify"]
                  /\ UNCHANGED res
    /\ did' = [did EXCEPT ![p] = @ \cup {"find"}]
    /\ UNCHANGED <<accounts, cache, req, rcpt, tx, rows, hit, keyReq,
                   expected, ops>>
    /\ UNCHANGED regVars

\* A lookup rejects (the store fails): find is awaited outside any try, so
\* the error leaves the handler.
FindFails(p) ==
    /\ pc[p] \in {"find", "find2"}
    /\ Finish(p, Unhandled)
    /\ did' = [did EXCEPT ![p] = @ \cup {"find", "findFailed"}]
    /\ UNCHANGED <<accounts, cache, req, acct, rcpt, tx, rows, hit, keyReq,
                   expected, ops>>
    /\ UNCHANGED regVars

\* transfer, withdraw: await argon2.verify(transaction_pin, stored pin): the
\* request's PIN is passed as the digest and the stored hash as the plain
\* text. The call is awaited outside any try: a throw leaves the handler.
Verify(p) ==
    /\ pc[p] = "verify"
    /\ LET v == argon2_verify(req[p].pin, acct[p].transaction_pin)
       IN CASE v = "throw" -> Finish(p, Unhandled)
            [] v = "false" -> Finish(p, getError(400, "Invalid transaction pin"))
            [] OTHER -> /\ pc' = [pc EXCEPT ![p] = "update"]
                        /\ UNCHANGED res
    /\ did' = [did EXCEPT ![p] = @ \cup {"verify"}]
    /\ UNCHANGED <<accounts, cache, req, acct, rcpt, tx, rows, hit, keyReq,
                   expected, ops>>
    /\ UNCHANGED regVars

\* The balance and the owner of the first updateDto.
FirstBalance(r, a) ==
    IF r.kind = "deposit" THEN a.balance + r.amount ELSE a.balance - r.amount
FirstOwner(r, a) == IF r.kind = "deposit" THEN r.user ELSE a.owner

\* db.transaction opens and the first update runs in it; it waits while
\* another transaction holds a row it matches.
Update(p) ==
    /\ pc[p] = "update"
    /\ LET o == FirstOwner(req[p], acct[p])
       IN /\ Matching(accounts, o) \cap LockedByOthers(p) = {}
          /\ tx' = [tx EXCEPT ![p] =
                      Written(accounts, @, o, FirstBalance(req[p], acct[p]))]
          /\ rows' = [rows EXCEPT ![p] = <<Cardinality(Matching(accounts, o))>>]
    /\ pc' = [pc EXCEPT ![p] =
                IF req[p].kind = "transfer" THEN "update2" ELSE "commit"]
    /\ did' = [did EXCEPT ![p] = @ \cup {"update"}]
    /\ UNCHANGED <<accounts, cache, req, acct, rcpt, res, hit, keyReq,
                   expected, ops>>
    /\ UNCHANGED regVars

\* transfer: the recipient's update, in the same transaction.
UpdateRecipient(p) ==
    /\ pc[p] = "update2"
    /\ LET o == rcpt[p].owner
       IN /\ Matching(accounts, o) \cap LockedByOthers(p) = {}
          /\ tx' = [tx EXCEPT ![p] =
                      Written(accounts, @, o, rcpt[p].balance + req[p].amount)]
          /\ rows' = [rows EXCEPT ![p] =
                        Append(@, Cardinality(Matching(accounts, o)))]
    /\ pc' = [pc EXCEPT ![p] = "commit"]
    /\ UNCHANGED <<accounts, cache, req, acct, rcpt, res, did, hit, keyReq,
                   expected, ops>>
    /\ UNCHANGED regVars

\* The deltas a successful operation applies, by account number.
Delta(r, a, n) ==
    CASE r.kind = "deposit" -> IF n = a.num THEN r.amount ELSE 0
      [] r.kind = "withdraw" -> IF n = r.source THEN 0 - r.amount ELSE 0
      [] OTHER -> IF n = r.source THEN 0 - r.amount
                  ELSE IF n = r.destination THEN r.amount ELSE 0

\* The transaction callback returns: with every affected-row count 1 the
\* transaction commits, the response is cached under the key and sent;
\* otherwise the callback throws, the transaction rolls back and the catch
\* answers with the error.
TxEnd(p) ==
    /\ pc[p] = "commit"
    /\ tx' = [tx EXCEPT ![p] = NoTx]
    /\ IF RowsOk(req[p].kind, rows[p])
       THEN /\ accounts' = Committed(accounts, tx[p])
            /\ Finish(p, SuccessResponse(req[p], acct[p]))
            /\ cache' = cacheResponseIfKeyExists(cache, req[p],
                                  SuccessResponse(req[p], acct[p]))
            /\ keyReq' = IF req[p].key # NoKey
                         THEN [keyReq EXCEPT ![<<req[p].user, req[p].key>>] = req[p]]
                         ELSE keyReq
            /\ expected' = [n \in DOMAIN expected |->
                              expected[n] + Delta(req[p], acct[p], n)]
            /\ did' = [did EXCEPT ![p] = @ \cup {"commit"}]
       ELSE /\ Finish(p, getError(400, RowsError(req[p].kind)))
            /\ UNCHANGED <<accounts, cache, keyReq, expected, did>>
    /\ UNCHANGED <<req, acct, rcpt, rows, hit, ops>>
    /\ UNCHANGED regVars

\* The store rejects a call made in the transaction (a deadlock victim, a
\* lock timeout, a lost connection): the transaction rolls back and the
\* catch answers with the store's error.
TxFails(p) ==
    /\ pc[p] \in {"update", "update2", "commit"}
    /\ tx' = [tx EXCEPT ![p] = NoTx]
    /\ Finish(p, getError(400, "store error"))
    /\ UNCHANGED <<accounts, cache, req, acct, rcpt, rows, did, hit, keyReq,
                   expected, ops>>
    /\ UNCHANGED regVars

\* A cache record reaches its time to live (21600 s) and is dropped.
Expire(k) ==
    /\ cache[k] # NoResponse
    /\ cache' = [cache EXCEPT ![k] = NoResponse]
    /\ keyReq' = [keyReq EXCEPT ![k] = NoReq]
    /\ UNCHANGED <<accounts, pc, req, acct, rcpt, tx, rows, res, did, hit,
                   expected, ops>>
    /\ UNCHANGED regVars

Step(p) ==
    \/ DepositFind(p)
    \/ TransferFindSender(p)
    \/ TransferFindRecipient(p)
    \/ WithdrawFind(p)
    \/ FindFails(p)
    \/ Verify(p)
    \/ Update(p)
    \/ UpdateRecipient(p)
    \/ TxEnd(p)
    \/ TxFails(p)

\* --------------------------------------------------------------- requests
Deposits(U, K, A) ==
    {Req("deposit", u, k, 0, 0, a, 0, 0) : u \in U, k \in K, a \in A}
Transfers(U, K, S, D, A, P, B) ==
    {Req("transfer", x[1], x[2], x[3], x[4], x[5], x[6], x[7]) :
        x \in U \X K \X S \X D \X A \X P \X B}
Withdrawals(U, K, S, A, P, B) ==
    {Req("withdraw", x[1], x[2], x[3], 9, x[4], x[5], x[6]) :
        x \in U \X K \X S \X A \X P \X B}

\* The PIN strings a request may carry: too short, the plain PIN, a plain PIN
\* that is not the account's, the stored hash string, a hash string of the
\* stored hash string.
Pins == {0, 1, 2, Hash(1), Hash(Hash(1))}

\* Requests of the concurrent specification: schema-valid, between distinct
\* accounts, with a transaction_pin that argon2.verify accepts.
ConcReqs ==
    Deposits({1}, Keys, {10})
    \cup Deposits({2}, {NoKey}, {-10, 10})
    \cup {r \in Transfers(Users, {NoKey}, {1, 2}, {1, 2}, {30},
                          {Hash(Hash(1))}, {0}) : r.source # r.destination}
    \cup Withdrawals({1}, {NoKey}, {1, 2}, {-10, 30}, {Hash(Hash(1))}, {1})

Next ==
    \/ \E p \in Procs, r \in ConcReqs : ops < MaxOps /\ Start(p, r)
    \/ \E p \in Procs : Step(p)
    \/ \E k \in CacheKeys : Expire(k)

Spec == Init /\ [][Next]_vars

\* Requests of the transfers-only specification.
TransferReqs ==
    {r \in Transfers(Users, {NoKey}, {1, 2}, {1, 2}, {30},
                     {Hash(Hash(1))}, {0}) : r.source # r.destination}

StepTransfer(p) ==
    \/ TransferFindSender(p)
    \/ TransferFindRecipient(p)
    \/ FindFails(p)
    \/ Verify(p)
    \/ Update(p)
    \/ UpdateRecipient(p)
    \/ TxEnd(p)
    \/ TxFails(p)

NextTransfers ==
    \/ \E p \in Procs, r \in TransferReqs : ops < MaxOps /\ Start(p, r)
    \/ \E p \in Procs : StepTransfer(p)

SpecTransfers == Init /\ [][NextTransfers]_vars

\* Requests of the sequential specification: every way a request can fail a
\* check, one request at a time.
SeqReqs ==
    Deposits(Users, Keys, {-10, 10})
    \cup Transfers(Users, {NoKey}, {1, 2, 9}, {1, 2, 9}, {-10, 30}, Pins, {0, 1})
    \cup Transfers(Users, {1}, {1, 2}, {1, 2}, {30}, {Hash(1), Hash(Hash(1))}, {0})
    \cup Withdrawals({1}, {NoKey}, {1, 9}, {-10, 30}, Pins, {0, 1})
    \cup Withdrawals({1}, {1}, {2}, {30}, {Hash(Hash(1))}, {1})

NextSeq ==
    \/ \E r \in SeqReqs : ops < MaxOpsSeq /\ Start(1, r)
    \/ Step(1)
    \/ \E k \in CacheKeys : Expire(k)

SpecSeq == Init /\ [][NextSeq]_vars

\* ----------------------------------------------------------- registration
\* UserController.create, cut at its awaits like the handlers above. An email
\* or a phone number is an integer, 0 an absent phone_number.

\* create-user.validator: Joi's first failing rule ("" for a valid body).
validateUser(v) ==
    IF v.transaction_pin = 0
    THEN "transaction_pin length must be at least 4 characters long"
    ELSE ""

\* The ids of the committed users that getUserByEmailOrPhoneNumber matches.
getUserByEmailOrPhoneNumber(t, email, phoneNumber) ==
    IF phoneNumber # 0
    THEN {u \in DOMAIN t : t[u].email = email \/ t[u].phone_number = phoneNumber}
    ELSE {u \in DOMAIN t : t[u].email = email}

\* The value of a variable bound to a property the object lacks.
Undefined == -1

\* const { pin, ...userDto } = value: the validated body has the properties
\* of userSchema, of which pin is none.
\* (the PIN taken from the property the schema defines)
PinOfTransactionPin(value) == value.transaction_pin
PinOf(value) == IF "pin" \in DOMAIN value THEN value.pin ELSE Undefined

\* argon2.hash(plain) rejects a plain that is neither a string nor a Buffer.
HashRejects(plain) == plain = Undefined

SetMax(S) == IF S = {} THEN 0 ELSE CHOOSE x \in S : \A y \in S : y <= x

\* The auto-increment id of the next row inserted in users.
NextId(t, r) == 1 + SetMax(DOMAIN t \cup {r[q].uid : q \in Procs})

\* The account numbers generateAccountNumber may draw.
AcctNums == 1..3

RegEnd(p, response) ==
    reg' = [reg EXCEPT ![p].pc = "done", ![p].res = response]

\* A registration arrives: validateUser, up to the first await.
RegStart(p, v) ==
    /\ reg[p].pc \in {"idle", "done"}
    /\ ops' = ops + 1
    /\ reg' = [reg EXCEPT ![p] =
                 IF validateUser(v) # ""
                 THEN [NoReg EXCEPT !.pc = "done", !.value = v,
                                    !.res = getError(400, validateUser(v))]
                 ELSE [NoReg EXCEPT !.pc = "exists", !.value = v]]
    /\ UNCHANGED <<accounts, userRows>>
    /\ UNCHANGED fundVars
    /\ UNCHANGED gen

\* await getUserByEmailOrPhoneNumber, outside the transaction.
RegExists(p) ==
    /\ reg[p].pc = "exists"
    /\ IF getUserByEmailOrPhoneNumber(userRows, reg[p].value.email,
                                      reg[p].value.phone_number) # {}
       THEN RegEnd(p, getError(400,
                "A user with that email or phone number already exists"))
       ELSE reg' = [reg EXCEPT ![p].pc = "insert"]
    /\ UNCHANGED <<accounts, userRows, ops>>
    /\ UNCHANGED fundVars
    /\ UNCHANGED gen

\* createUser: await trx("users").insert(userDto).
RegInsert(p) ==
    /\ reg[p].pc = "insert"
    /\ reg' = [reg EXCEPT ![p].pc = "select", ![p].uid = NextId(userRows, reg)]
    /\ UNCHANGED <<accounts, userRows, ops>>
    /\ UNCHANGED fundVars
    /\ UNCHANGED gen

\* createUser: await trx("users").select().where({email}).first(): a row
\* with that email among the committed ones and the transaction's own.
RegSelect(p) ==
    /\ reg[p].pc = "select"
    /\ \E u \in {reg[p].uid} \cup
                {x \in DOMAIN userRows : userRows[x].email = reg[p].value.email} :
         reg' = [reg EXCEPT ![p].pc = "hash", ![p].user = u]
    /\ UNCHANGED <<accounts, userRows, ops>>
    /\ UNCHANGED fundVars
    /\ UNCHANGED gen

\* await argon2.hash(pin), then accountReposity.create and the commit; a
\* rejection, or a duplicate account_number, rolls the transaction back and
\* escapes the handler.
RegCreate(p) ==
    /\ reg[p].pc = "hash"
    /\ IF HashRejects(PinOf(reg[p].value))
       THEN /\ RegEnd(p, Unhandled)
            /\ UNCHANGED <<accounts, userRows>>
       ELSE \E n \in AcctNums :
              IF n \in DOMAIN accounts
              THEN /\ RegEnd(p, Unhandled)
                   /\ UNCHANGED <<accounts, userRows>>
              ELSE /\ userRows' = userRows @@
                        (reg[p].uid :> UserRow(reg[p].value.email,
                                               reg[p].value.phone_number))
                   /\ accounts' = accounts @@
                        (n :> [Row(reg[p].user, 0) EXCEPT
                                 !.transaction_pin = Hash(PinOf(reg[p].value))])
                   /\ RegEnd(p, Response(200, TRUE, ""))
    /\ UNCHANGED ops
    /\ UNCHANGED fundVars
    /\ UNCHANGED gen

\* The store rejects the lookup, the insert or the select.
RegFails(p) ==
    /\ reg[p].pc \in {"exists", "insert", "select"}
    /\ RegEnd(p, Unhandled)
    /\ UNCHANGED <<accounts, userRows, ops>>
    /\ UNCHANGED fundVars
    /\ UNCHANGED gen

RegStep(p) ==
    \/ RegExists(p)
    \/ RegInsert(p)
    \/ RegSelect(p)
    \/ RegCreate(p)
    \/ RegFails(p)

\* The registration bodies: two emails, a phone number absent or one of two,
\* a transaction_pin too short or valid.
Bodies ==
    [email : {1, 2}, phone_number : {0, 1, 2}, transaction_pin : {0, 1}]

\* The tables before the registrations: fresh, or holding one user and the
\* user's account.
InitReg ==
    /\ \/ /\ accounts = [n \in {} |-> NoAcct]
          /\ userRows = [u \in {} |-> NoBody]
       \/ /\ accounts = (1 :> Row(1, 100))
          /\ userRows = (1 :> UserRow(1, 1))
    /\ cache = [k \in CacheKeys |-> NoResponse]
    /\ pc = [p \in Procs |-> "idle"]
    /\ req = [p \in Procs |-> NoReq]
    /\ acct = [p \in Procs |-> NoAcct]
    /\ rcpt = [p \in Procs |-> NoAcct]
    /\ tx = [p \in Procs |-> NoTx]
    /\ rows = [p \in Procs |-> <<>>]
    /\ res = [p \in Procs |-> NoResponse]
    /\ did = [p \in Procs |-> {}]
    /\ hit = [p \in Procs |-> NoResponse]
    /\ keyReq = [k \in CacheKeys |-> NoReq]
    /\ expected = [n \in DOMAIN accounts |-> accounts[n].balance]
    /\ ops = 0
    /\ reg = [p \in Procs |-> NoReg]
    /\ gen = NoGen

NextReg ==
    \/ \E p \in Procs, v \in Bodies : ops < MaxRegs /\ RegStart(p, v)
    \/ \E p \in Procs : RegStep(p)

SpecReg == InitReg /\ [][NextReg]_vars

\* -------------------------------------------------- generateAccountNumber
\* Number.prototype.toString: the decimal digits of a non-negative integer.
RECURSIVE toString(_)
toString(n) ==
    IF n < 10 THEN <<n>> ELSE Append(toString(n \div 10), n % 10)

\* parseInt of a string of digits: the number, kept as its decimal digits
\* without leading zeros (an account number exceeds 2^31).
RECURSIVE parseInt(_)
parseInt(s) ==
    IF Len(s) > 1 /\ s[1] = 0 THEN parseInt(Tail(s)) ELSE s

\* Math.floor(Math.random() * 90000000), the draw being m * 10^-8.
FloorRandom(m) == (9 * m) \div 10

\* (the offset 10000000 left out)
generateAccountNumberNoOffset(m) ==
    parseInt(<<2, 1>> \o toString(FloorRandom(m)))
generateAccountNumber(m) ==
    parseInt(<<2, 1>> \o toString(FloorRandom(m) + 10000000))

\* The values of Math.random drawn, in units of 10^-8: a grid over [0, 1)
\* and the values next to its ends.
RandomValues ==
    {k * (99999999 \div RandomSteps) : k \in 0..RandomSteps}
    \cup {1, 2, 11111111, 11111112, 99999998, 99999999}

\* AccountRepository.generateAccountNumber is called with the draw.
Generate ==
    /\ gen.account_number = <<>>
    /\ gen' = [gen EXCEPT !.account_number = generateAccountNumber(gen.random)]
    /\ UNCHANGED <<accounts, ops, userRows, reg>>
    /\ UNCHANGED fundVars

InitGen ==
    /\ accounts = TableOne
    /\ userRows = [u \in Users |-> UserRow(u, u)]
    /\ cache = [k \in CacheKeys |-> NoResponse]
    /\ pc = [p \in Procs |-> "idle"]
    /\ req = [p \in Procs |-> NoReq]
    /\ acct = [p \in Procs |-> NoAcct]
    /\ rcpt = [p \in Procs |-> NoAcct]
    /\ tx = [p \in Procs |-> NoTx]
    /\ rows = [p \in Procs |-> <<>>]
    /\ res = [p \in Procs |-> NoResponse]
    /\ did = [p \in Procs |-> {}]
    /\ hit = [p \in Procs |-> NoResponse]
    /\ keyReq = [k \in CacheKeys |-> NoReq]
    /\ expected = [n \in DOMAIN accounts |-> accounts[n].balance]
    /\ ops = 0
    /\ reg = [p \in Procs |-> NoReg]
    /\ \E m \in RandomValues : gen = [NoGen EXCEPT !.random = m]

NextGen == Generate

SpecGen == InitGen /\ [][NextGen]_vars

\* ----------------------------------------------------------------- claims
Done(p) == pc[p] = "done"

\* The request in slot p repeats, with the same user and idempotency key, the
\* operation whose response is still in the cache.
Repeats(p) == hit[p] # NoResponse

\* C1: a request that repeats a successful operation under the same user and
\* idempotency key, before the record expires, does not execute again: it
\* verifies no PIN and commits no balance.
C1_NoReexecution ==
    \A p \in Procs : Repeats(p) => did[p] \cap {"verify", "commit"} = {}

\* C2: a request that repeats a successful operation under the same user and
\* idempotency key is answered, when it is answered with a success, with the
\* response of the first call, field for field.
C2_SameResponse ==
    \A p \in Procs :
        (Repeats(p) /\ Done(p) /\ res[p].success) => res[p] = hit[p]

\* The table after both legs of the transfer r, computed from the balances
\* the transfer read, and only those two rows changed.
BothLegs(t, r, s, d) ==
    [n \in DOMAIN t |->
        IF n = r.source THEN [t[n] EXCEPT !.balance = s.balance - r.amount]
        ELSE IF n = r.destination
        THEN [t[n] EXCEPT !.balance = d.balance + r.amount]
        ELSE t[n]]

\* The balances the request read are those committed now.
Fresh(p) ==
    /\ acct[p] # NoAcct => acct[p].balance = accounts[acct[p].num].balance
    /\ rcpt[p] # NoAcct => rcpt[p].balance = accounts[rcpt[p].num].balance

C3_Step(p) ==
    /\ (req'[p].kind = "transfer" /\ pc'[p] # pc[p] /\ pc'[p] # "done")
           => accounts' = accounts
    /\ (req[p].kind = "transfer" /\ pc[p] # "done" /\ pc'[p] = "done") =>
        /\ res'[p].success =>
             /\ rows[p] = <<1, 1>>
             /\ accounts' = BothLegs(accounts, req[p], acct[p], rcpt[p])
             /\ (Fresh(p) /\ req[p].amount = 30
                   /\ accounts[req[p].source].balance = 100
                   /\ accounts[req[p].destination].balance = 50)
                  => /\ accounts'[req[p].source].balance = 70
                     /\ accounts'[req[p].destination].balance = 80
        /\ ~res'[p].success => accounts' = accounts

C4_NoLostDeposit ==
    \A p, q \in Procs :
        (/\ p # q /\ ops = 2
         /\ Done(p) /\ Done(q) /\ res[p].success /\ res[q].success
         /\ req[p].kind = "deposit" /\ req[q].kind = "deposit"
         /\ req[p].amount = 10 /\ req[q].amount = 10
         /\ acct[p].num = acct[q].num
         /\ expected[acct[p].num] = 20)
        => accounts[acct[p].num].balance = 20

\* C5: every committed balance is the initial balance plus the deltas of the
\* operations that committed and answered with a success.
C5_SumOfDeltas ==
    \A n \in DOMAIN accounts : accounts[n].balance = expected[n]

\* C6: every committed balance is at least 0.
C6_NonNegative == \A n \in DOMAIN accounts : accounts[n].balance >= 0

\* A positive withdrawal committed and left less than its amount behind: a
\* second one of the same amount would overdraw the account.
C6_Witness ==
    \E p \in Procs :
        /\ Done(p) /\ req[p].kind = "withdraw" /\ res[p].success
        /\ req[p].amount > 0
        /\ accounts[req[p].source].balance < req[p].amount

\* C7: a request whose transaction ends while a balance it read is no longer
\* the committed one (another request committed a change in between) is
\* answered with a failure and commits nothing.
C7_StaleWriteAborts ==
    [][\A p \in Procs :
         (pc[p] = "commit" /\ pc'[p] = "done" /\ ~Fresh(p))
            => (~res'[p].success /\ accounts' = accounts)]_vars

\* The kind of error a response carries.
ErrorKind(e) ==
    CASE e.success -> "none"
      [] e.status = 500 -> "Unhandled"
      [] e.details = "Invalid amount" -> "InvalidAmount"
      [] e.details = "Sender and recipient account cannot be the same"
            -> "SameAccount"
      [] e.details \in {"One or both bank accounts do not exist.",
                        "Source Bank account do not exist.",
                        "Bank account doesn't exist"} -> "AccountNotFound"
      [] e.details = "You are not allowed to transfer from this account"
            -> "Forbidden"
      [] e.details = "Insufficient funds in the sender account."
            -> "InsufficientFunds"
      [] e.details = "Invalid transaction pin" -> "InvalidPin"
      [] e.details \in {"Deposit failed", "Withdrawal failed"} -> "RowCount"
      [] e.details = "store error" -> "Store"
      [] OTHER -> "Validation"

\* The error of the first check, in the order given, that the request fails
\* ("none" when it passes them all); a check is <<violated, error>>.
FirstViolated(checks) ==
    IF \A i \in 1..Len(checks) : ~checks[i][1] THEN "none"
    ELSE checks[CHOOSE i \in 1..Len(checks) :
                  /\ checks[i][1]
                  /\ \A j \in 1..(i - 1) : ~checks[j][1]][2]

\* The preconditions of a transfer r, s and d being the source and the
\* destination rows (NoAcct for a missing row).
TransferSchemaBad(r) == r.pin = 0 \/ r.bank # 0
TransferSame(r) == r.source = r.destination
TransferMissing(s, d) == s = NoAcct \/ d = NoAcct
AmountBad(r) == r.amount <= 0
NotOwner(r, s) == s # NoAcct /\ s.owner # r.user
Insufficient(r, s) == s # NoAcct /\ s.balance < r.amount
PinRejected(r, s) ==
    /\ s # NoAcct /\ IsPHC(r.pin) /\ r.pin # Hash(s.transaction_pin)

\* The order of the transfer's checks as the specification states it.
TransferOrderStated(r, s, d) ==
    FirstViolated(<< <<TransferSchemaBad(r), "Validation">>,
                     <<TransferSame(r), "SameAccount">>,
                     <<TransferMissing(s, d), "AccountNotFound">>,
                     <<AmountBad(r), "InvalidAmount">>,
                     <<NotOwner(r, s), "Forbidden">>,
                     <<Insufficient(r, s), "InsufficientFunds">>,
                     <<PinRejected(r, s), "InvalidPin">> >>)

\* The order with the amount checked before the existence of the accounts.
TransferOrderAmountFirst(r, s, d) ==
    FirstViolated(<< <<TransferSchemaBad(r), "Validation">>,
                     <<TransferSame(r), "SameAccount">>,
                     <<AmountBad(r), "InvalidAmount">>,
                     <<TransferMissing(s, d), "AccountNotFound">>,
                     <<NotOwner(r, s), "Forbidden">>,
                     <<Insufficient(r, s), "InsufficientFunds">>,
                     <<PinRejected(r, s), "InvalidPin">> >>)

\* The request in slot p was answered and every lookup it made was answered
\* by the store.
Answered(p) == Done(p) /\ "findFailed" \notin did[p]

\* C8 as stated: an answered transfer that violates preconditions carries the
\* error of the first violated check in the order schema, same account,
\* existence, amount, ownership, funds, PIN; so a transfer with amount <= 0
\* naming a missing account is answered AccountNotFound.
C8_StatedOrder ==
    \A p \in Procs :
        (Answered(p) /\ req[p].kind = "transfer" /\ ~res[p].success)
        => LET e == TransferOrderStated(req[p], find(accounts, req[p].source),
                                        find(accounts, req[p].destination))
           IN e # "none" => ErrorKind(res[p]) = e

\* C8 amended: an answered transfer that violates preconditions carries the
\* error of the first violated check in the order schema, same account,
\* amount, existence, ownership, funds, PIN; a transfer that succeeds
\* violated none of them on the rows it read.
C8_AmountBeforeExistence ==
    \A p \in Procs :
        (Answered(p) /\ req[p].kind = "transfer") =>
            IF res[p].success
            THEN TransferOrderAmountFirst(req[p], acct[p], rcpt[p]) = "none"
            ELSE LET e == TransferOrderAmountFirst(req[p],
                               find(accounts, req[p].source),
                               find(accounts, req[p].destination))
                 IN e # "none" => ErrorKind(res[p]) = e

\* A schema-valid transfer between distinct accounts, with amount <= 0 and a
\* missing account, was answered InvalidAmount.
C8_Witness ==
    \E p \in Procs :
        /\ Answered(p) /\ req[p].kind = "transfer"
        /\ ~TransferSchemaBad(req[p]) /\ ~TransferSame(req[p])
        /\ req[p].amount <= 0
        /\ req[p].source \notin DOMAIN accounts
        /\ ErrorKind(res[p]) = "InvalidAmount"

\* The preconditions of a withdrawal r, s being the source row.
WithdrawSchemaBad(r) == r.pin = 0 \/ r.bank = 0

WithdrawOrder(r, s) ==
    FirstViolated(<< <<WithdrawSchemaBad(r), "Validation">>,
                     <<s = NoAcct, "AccountNotFound">>,
                     <<Insufficient(r, s), "InsufficientFunds">>,
                     <<PinRejected(r, s), "InvalidPin">> >>)

\* C9: an answered withdrawal that violates preconditions carries the error
\* of the first violated check in the order schema, existence, funds, PIN,
\* and when a check before the PIN's is violated argon2.verify is not called;
\* a withdrawal that succeeds violated none of them on the row it read.
C9_WithdrawOrder ==
    \A p \in Procs :
        (Answered(p) /\ req[p].kind = "withdraw") =>
            IF res[p].success
            THEN WithdrawOrder(req[p], acct[p]) = "none"
            ELSE LET e == WithdrawOrder(req[p], find(accounts, req[p].source))
                 IN /\ e # "none" => ErrorKind(res[p]) = e
                    /\ e \in {"Validation", "AccountNotFound",
                              "InsufficientFunds"} => "verify" \notin did[p]

\* A withdrawal of more than the balance, with a PIN that does not verify,
\* was answered InsufficientFunds without a call of argon2.verify.
C9_Witness ==
    \E p \in Procs :
        /\ Answered(p) /\ req[p].kind = "withdraw"
        /\ req[p].source \in DOMAIN accounts
        /\ accounts[req[p].source].balance < req[p].amount
        /\ argon2_verify(req[p].pin,
                         accounts[req[p].source].transaction_pin) = "false"
        /\ ErrorKind(res[p]) = "InsufficientFunds"
        /\ "verify" \notin did[p]

\* C10: a schema-valid transfer whose source is its destination is answered
\* with the same-account error, having made no lookup, no PIN check and no
\* update, with no transaction open.
C10_SameAccountFirst ==
    \A p \in Procs :
        (req[p].kind = "transfer" /\ pc[p] # "idle"
         /\ ~TransferSchemaBad(req[p]) /\ TransferSame(req[p]))
        => /\ Done(p) /\ ErrorKind(res[p]) = "SameAccount"
           /\ did[p] = {} /\ tx[p] = NoTx
           /\ acct[p] = NoAcct /\ rcpt[p] = NoAcct

\* A schema-valid transfer from an existing account to itself was answered.
C10_Witness ==
    \E p \in Procs :
        /\ Done(p) /\ req[p].kind = "transfer"
        /\ ~TransferSchemaBad(req[p]) /\ TransferSame(req[p])
        /\ req[p].source \in DOMAIN accounts
        /\ req[p].amount > 0

\* C11: a transfer that passed every check before the PIN's, and whose
\* transaction_pin is not the PIN behind the source account's stored hash, is
\* answered InvalidPin, and it makes no update and opens no transaction.
C11_WrongPinRejected ==
    \A p \in Procs :
        (req[p].kind = "transfer" /\ "verify" \in did[p]
         /\ argon2_verify(acct[p].transaction_pin, req[p].pin) # "true")
        => /\ Done(p) /\ ErrorKind(res[p]) = "InvalidPin"
           /\ did[p] \cap {"update", "commit"} = {}
           /\ tx[p] = NoTx

\* C12: a withdrawal that read a source balance smaller than its amount is
\* answered InsufficientFunds; it verifies no PIN, makes no update and opens
\* no transaction, so it changes no balance.
C12_OverdrawRejected ==
    \A p \in Procs :
        (req[p].kind = "withdraw" /\ acct[p] # NoAcct
         /\ acct[p].balance < req[p].amount)
        => /\ Done(p) /\ ErrorKind(res[p]) = "InsufficientFunds"
           /\ did[p] = {"find"} /\ tx[p] = NoTx

\* A withdrawal of more than the balance of its existing source was answered.
C12_Witness ==
    \E p \in Procs :
        /\ Done(p) /\ req[p].kind = "withdraw"
        /\ acct[p] # NoAcct /\ acct[p].balance < req[p].amount
        /\ ~res[p].success

\* C13: a deposit with amount <= 0 is answered with the invalid-amount error
\* having looked up no account, made no update and opened no transaction.
C13_DepositAmountRejected ==
    \A p \in Procs :
        (req[p].kind = "deposit" /\ req[p].amount <= 0)
        => /\ Done(p) /\ ErrorKind(res[p]) = "InvalidAmount"
           /\ did[p] = {} /\ acct[p] = NoAcct /\ tx[p] = NoTx

\* A deposit with amount <= 0 by a user who owns an account was answered.
C13_Witness ==
    \E p \in Procs :
        /\ Done(p) /\ req[p].kind = "deposit" /\ req[p].amount <= 0
        /\ Matching(accounts, req[p].user) # {}

\* C14: a schema-valid withdrawal with amount <= 0 is answered with a failure
\* and commits no change of the source balance.
C14_WithdrawAmountPositive ==
    \A p \in Procs :
        (req[p].kind = "withdraw" /\ ~WithdrawSchemaBad(req[p])
         /\ req[p].amount <= 0)
        => /\ Done(p) => ~res[p].success
           /\ "commit" \notin did[p]

\* C15: a transfer with a positive amount between two existing accounts,
\* whose source is not owned by the caller, is answered Forbidden without a
\* PIN check, an update or a transaction; and a transfer that made an update
\* was sent by the owner of its source account.
C15_OnlyOwnerDebits ==
    \A p \in Procs :
        req[p].kind = "transfer" =>
            /\ (acct[p] # NoAcct /\ rcpt[p] # NoAcct /\ req[p].amount > 0
                /\ acct[p].owner # req[p].user)
               => /\ Done(p) /\ ErrorKind(res[p]) = "Forbidden"
                  /\ did[p] = {"find"} /\ tx[p] = NoTx
            /\ (tx[p] # NoTx \/ did[p] \cap {"update", "commit"} # {})
               => accounts[req[p].source].owner = req[p].user

\* A transfer from an account the caller does not own, which holds the
\* amount, was answered while another request had a transaction open.
C15_Witness ==
    \E p, q \in Procs :
        /\ Done(p) /\ req[p].kind = "transfer"
        /\ acct[p] # NoAcct /\ rcpt[p] # NoAcct
        /\ acct[p].owner # req[p].user
        /\ acct[p].balance >= req[p].amount
        /\ ~res[p].success
        /\ tx[q] # NoTx

\* C16: a step changes a cache record only by dropping it at its expiry or
\* by storing, under the key of a request that carries one, the response of
\* that request as it ends with success; a request that ends with a failure,
\* or that carries no key, leaves the cache as it is.
C16_Step ==
    /\ \A k \in CacheKeys :
         cache'[k] # cache[k] =>
            \/ cache'[k] = NoResponse
            \/ /\ k[2] # NoKey
               /\ \E p \in Procs :
                    /\ req[p].user = k[1] /\ req[p].key = k[2]
                    /\ ~Done(p) /\ pc'[p] = "done"
                    /\ res'[p].success /\ cache'[k] = res'[p]
    /\ \A p \in Procs :
         (pc'[p] = "done" /\ (pc[p] # "done" \/ req'[p] # req[p])
          /\ (~res'[p].success \/ req'[p].key = NoKey))
         => \A k \in CacheKeys : cache'[k] = cache[k]

C16_CacheOnlyOnSuccess == [][C16_Step]_vars

\* A request carrying a key was answered with a failure after its PIN was
\* checked, and no record is stored under its key.
C16_Witness ==
    \E p \in Procs :
        /\ Done(p) /\ req[p].key # NoKey
        /\ ErrorKind(res[p]) \in {"InvalidPin", "RowCount", "Store"}
        /\ "verify" \in did[p]
        /\ cache[<<req[p].user, req[p].key>>] = NoResponse

\* C17: a step leaves every stored cache record as it is, or drops it at its
\* expiry: the response stored first under a key stays until then.
C17_RecordImmutable ==
    [][\A k \in CacheKeys :
          cache[k] # NoResponse => cache'[k] \in {cache[k], NoResponse}]_vars

\* C18: every request that ends carries a success response or a failure
\* object {success: false, details}, never the unhandled error; and a request
\* answered with a failure committed no balance change.
C18_StructuredResult ==
    \A p \in Procs :
        Done(p) => /\ res[p] # Unhandled
                   /\ ~res[p].success => "commit" \notin did[p]

\* C19: no step of a deposit, a withdrawal or a transfer creates or deletes
\* an account row or changes the owner or the transaction_pin of one (the
\* account_number is the row's index): only balances change.
C19_Step ==
    /\ DOMAIN accounts' = DOMAIN accounts
    /\ \A n \in DOMAIN accounts :
         /\ accounts'[n].owner = accounts[n].owner
         /\ accounts'[n].transaction_pin = accounts[n].transaction_pin

C19_BalancesOnly == [][C19_Step]_vars

\* A transfer committed and both balances differ from those it read.
C19_Witness ==
    \E p \in Procs :
        /\ Done(p) /\ req[p].kind = "transfer" /\ res[p].success
        /\ accounts[req[p].source].balance # acct[p].balance
        /\ accounts[req[p].destination].balance # rcpt[p].balance

C21_AccountNumberRange ==
    gen.account_number # <<>> =>
        /\ Len(gen.account_number) = 10
        /\ \A i \in 1..10 : gen.account_number[i] \in 0..9
        /\ gen.account_number[1] = 2 /\ gen.account_number[2] = 1
        /\ gen.account_number[3] \in 1..9

\* The largest account number was generated from the largest draw.
C21_Witness ==
    /\ gen.random = 99999999
    /\ gen.account_number = <<2, 1, 9, 9, 9, 9, 9, 9, 9, 9>>

\* C22: when the transaction of a deposit or a withdrawal ends after an
\* update that affected a number of rows other than one, the committed table
\* and the cache stay as they are, the transaction is closed and the request
\* is answered with a failure.
C22_Step ==
    \A p \in Procs :
        (pc[p] = "commit" /\ pc'[p] = "done"
         /\ req[p].kind \in {"deposit", "withdraw"} /\ rows[p] # <<1>>)
        => /\ accounts' = accounts /\ cache' = cache
           /\ tx'[p] = NoTx
           /\ ~res'[p].success /\ "commit" \notin did'[p]

C22_RowCountAborts == [][C22_Step]_vars

\* A withdrawal carrying a key, from an account whose owner holds two rows,
\* was answered with the affected-row failure; both rows were written in the
\* transaction and none is changed, and no record is stored under the key.
C22_Witness ==
    \E p \in Procs :
        /\ Done(p) /\ req[p].kind = "withdraw" /\ req[p].key # NoKey
        /\ rows[p] = <<2>> /\ ErrorKind(res[p]) = "RowCount"
        /\ accounts[req[p].source].balance = acct[p].balance
        /\ cache[<<req[p].user, req[p].key>>] = NoResponse

\* The sum of the balances of the rows of table t.
RECURSIVE SumBalances(_, _)
SumBalances(t, S) ==
    IF S = {} THEN 0
    ELSE LET n == CHOOSE x \in S : TRUE
         IN t[n].balance + SumBalances(t, S \ {n})

\* The table the run began with (no step changes the set of rows).
InitialTable == IF DOMAIN accounts = DOMAIN TableOne THEN TableOne ELSE TableTwo

\* C23: in every state reached by transfers alone, under any interleaving,
\* the sum of the committed balances is the sum the run began with.
C23_TransfersConserve ==
    SumBalances(accounts, DOMAIN accounts)
        = SumBalances(InitialTable, DOMAIN InitialTable)

\* C24: a step lowers the committed balance of an account only by
\* committing the transaction of a request whose caller owns that account.
C24_Step ==
    \A n \in DOMAIN accounts :
        accounts'[n].balance < accounts[n].balance =>
            \E p \in Procs :
                /\ pc[p] = "commit" /\ pc'[p] = "done"
                /\ n \in DOMAIN tx[p]
                /\ req[p].user = accounts[n].owner

C24_OnlyOwnerLowers == [][C24_Step]_vars

====
